---- MODULE Spec2Model ----
(***************************************************************************)
(* A model of src/main.py: the JSON-file variant of the anime listing API. *)
(* State: the two store files, the clock, the tokens clients hold, and the *)
(* last request with its response.  One action per route handler, with the *)
(* dependencies (oauth2_scheme, get_current_user) it runs first.           *)
(*                                                                         *)
(* Library behaviour the handlers rest on:                                 *)
(*   json.dump(obj, fp, ...) needs fp: without it the call raises          *)
(*     TypeError, after open(path, 'w') has already truncated the file;    *)
(*   json.load of a zero-byte file raises JSONDecodeError;                 *)
(*   `import jwt` with jwt.encode(payload, key, algorithm=) and            *)
(*     jwt.decode(token, key, algorithms=) is PyJWT, whose module has no   *)
(*     attribute JWTError: evaluating the clause `except jwt.JWTError`     *)
(*     raises AttributeError whenever an exception reaches it;             *)
(*   an exception that is no HTTPException leaves the framework as a 500.  *)
(***************************************************************************)
EXTENDS Integers, Sequences, FiniteSets, TLC

VARIABLES
    usersFile,  \* content of data/users.json
    postsFile,  \* content of data/posts.json
    now,        \* datetime.utcnow(), in minutes
    tok,        \* tok[c]: the token client c got from its last successful login
    req,        \* the last request that completed
    resp,       \* its response
    caller,     \* the User get_current_user resolved for it (NoCaller if none)
    pc,         \* pc[c]: where client c's register request stands (multi-worker runs)
    local       \* local[c]: the locals of client c's register request in flight

vars == <<usersFile, postsFile, now, tok, req, resp, caller, pc, local>>

---------------------------------------------------------------------------
(* Bounds of the model *)

MaxTime == 45
ClockStep == 15
MaxInitPosts == 2
MaxPosts == 15
MaxSkip == 11
MaxLimit == 11

(* Program constants *)

ACCESS_TOKEN_EXPIRE_MINUTES == 30
DefaultSkip == 0
DefaultLimit == 10

SECRET_KEY == "server-secret"
OtherKey == "other-secret"

---------------------------------------------------------------------------
(* Value domains *)

Clients == {"c1", "c2"}
Usernames == {"alice", "bob"}
Emails == {"a@x.com", "b@x.com"}
Passwords == {"pw123", "wrong"}
Salts == {"s1", "s2"}
UserIds == {"u1", "u2", "u3"}
NoDescription == "<null>"
NoOwner == "<absent>"
(* the bodies of POST /posts: description and a user_id field, each given or not *)
PostBodies == {<<NoDescription, NoOwner>>, <<"d", "u2">>}

(* A file holding the JSON list `data`, and a zero-byte file. *)
JsonFile(data) == [valid |-> TRUE, data |-> data]
EmptyFile == [valid |-> FALSE, data |-> <<>>]

(* What a call gives: a value, or an exception. *)
Ok(v) == [exc |-> "none", status |-> 0, detail |-> "", www |-> FALSE, value |-> v]
Raise(e) == [exc |-> e, status |-> 0, detail |-> "", www |-> FALSE, value |-> <<>>]
HTTPException(code, detail, www) ==
    [exc |-> "HTTPException", status |-> code, detail |-> detail, www |-> www,
     value |-> <<>>]

NoBody == [kind |-> "none"]

(* The response the framework sends for what a handler gave. *)
Respond(r, body) ==
    IF r.exc = "none"
    THEN [status |-> 200, detail |-> "", www |-> FALSE, body |-> body]
    ELSE IF r.exc = "HTTPException"
    THEN [status |-> r.status, detail |-> r.detail, www |-> r.www, body |-> NoBody]
    ELSE [status |-> 500, detail |-> "Internal Server Error", www |-> FALSE,
          body |-> NoBody]

---------------------------------------------------------------------------
(* Password hashing: pwd_context *)

pwd_hash(p, salt) == [salt |-> salt, digest |-> <<salt, p>>]
pwd_verify(p, h) == h.digest = <<h.salt, p>>

(* Models *)

UserModel(u) == [kind |-> "user", id |-> u.id, username |-> u.username, email |-> u.email]
NoCaller == [kind |-> "user", id |-> "", username |-> "", email |-> ""]
NoUser == [id |-> "", username |-> "", email |-> "", password |-> pwd_hash("", "")]

PostCreate(title, embed_url, description, owner) ==
    [title |-> title, embed_url |-> embed_url, description |-> description]

(* str(datetime) and datetime.fromisoformat(s.replace('Z', '+00:00')) *)
str_datetime(t) == [t |-> t, suffix |-> ""]
replace_Z(s) == IF s.suffix = "Z" THEN [s EXCEPT !.suffix = "+00:00"] ELSE s
fromisoformat(s) == [t |-> s.t, aware |-> (s.suffix = "+00:00")]

PostModel(p) ==
    [kind |-> "post", id |-> p.id, title |-> p.title, embed_url |-> p.embed_url,
     description |-> p.description, user_id |-> p.user_id,
     created_at |-> fromisoformat(replace_Z(p.created_at))]

---------------------------------------------------------------------------
(* JSON storage *)

read_json(file) == IF file.valid THEN Ok(file.data) ELSE Raise("JSONDecodeError")

(* open(file_path, 'a') and a dump that reaches the file *)
write_json_append(old, data) == [file |-> JsonFile(old.data \o data), exc |-> "none"]

(* open(file_path, 'w') truncates the file; json.dump(data, indent=2,
   default=str) has no fp and raises TypeError before anything is written. *)
write_json(old, data) == [file |-> EmptyFile, exc |-> "TypeError"]

---------------------------------------------------------------------------
(* Tokens.  A bearer token is absent ("none"), a string that is no JWT
   ("garbage"), or a JWT: its claims sub and exp, each present ({x}) or
   absent ({}), and the key that signed it. *)

NoToken == [kind |-> "none", sub |-> {}, exp |-> {}, key |-> ""]
Garbage == [kind |-> "garbage", sub |-> {}, exp |-> {}, key |-> ""]
Jwt(sub, exp, key) == [kind |-> "jwt", sub |-> sub, exp |-> exp, key |-> key]

(* jwt.encode of data plus {"exp": utcnow() + 30 minutes} *)
create_access_token(data, t) ==
    Jwt(data.sub, {t + ACCESS_TOKEN_EXPIRE_MINUTES}, SECRET_KEY)

(* jwt.decode without the check of exp *)
jwt_decode_no_exp(token, key, t) ==
    IF token.kind # "jwt" THEN Raise("DecodeError")
    ELSE IF token.key # key THEN Raise("InvalidSignatureError")
    ELSE Ok([sub |-> token.sub, exp |-> token.exp])

(* jwt.decode(token, key, algorithms=[ALGORITHM]): the signature, then exp
   (a token whose exp is now or earlier has expired). *)
jwt_decode(token, key, t) ==
    IF token.kind # "jwt" THEN Raise("DecodeError")
    ELSE IF token.key # key THEN Raise("InvalidSignatureError")
    ELSE IF \E e \in token.exp : e <= t THEN Raise("ExpiredSignatureError")
    ELSE Ok([sub |-> token.sub, exp |-> token.exp])

(* OAuth2PasswordBearer(tokenUrl="token"): no bearer token, no request. *)
oauth2_scheme(token) ==
    IF token.kind = "none"
    THEN HTTPException(401, "Not authenticated", TRUE)
    ELSE Ok(token)

(* next((u for u in users if <u matches>), None), for the set of the indices
   that match: the first of them, 0 for None. *)
FirstOf(matches) ==
    IF matches = {} THEN 0
    ELSE CHOOSE i \in matches : \A j \in matches : i <= j

(* The try block of get_current_user. *)
get_current_user_try(token, file, t) ==
    LET d == jwt_decode(token, SECRET_KEY, t) IN
    IF d.exc # "none" THEN d
    ELSE IF d.value.sub = {}
    THEN HTTPException(401, "Invalid authentication credentials", FALSE)
    ELSE LET r == read_json(file) IN
         IF r.exc # "none" THEN r
         ELSE LET users == r.value
                  i == FirstOf({k \in 1..Len(users) : users[k].id \in d.value.sub})
              IN  IF i = 0
                  THEN HTTPException(401, "User not found", FALSE)
                  ELSE Ok(UserModel(users[i]))

(* `except jwt.JWTError:`: the clause is evaluated for every exception the
   try block raises, an HTTPException included, and the jwt module has no
   attribute JWTError. *)
except_JWTError(raised) == Raise("AttributeError")

get_current_user(token, file, t) ==
    LET r == get_current_user_try(token, file, t) IN
    IF r.exc = "none" THEN r ELSE except_JWTError(r)

(* Depends(get_current_user), itself Depends(oauth2_scheme) *)
current_user_dependency(token, file, t) ==
    LET o == oauth2_scheme(token) IN
    IF o.exc # "none" THEN o ELSE get_current_user(o.value, file, t)

---------------------------------------------------------------------------
(* Requests and responses as the model records them *)

BaseReq ==
    [op |-> "", username |-> "", email |-> "", password |-> "", token |-> NoToken,
     description |-> NoDescription, owner |-> "", skip |-> 0, limit |-> 0]
RegisterReq(username, email, password) ==
    [BaseReq EXCEPT !.op = "register", !.username = username, !.email = email,
                    !.password = password]
LoginReq(username, password) ==
    [BaseReq EXCEPT !.op = "login", !.username = username, !.password = password]
CreatePostReq(token, description, owner) ==
    [BaseReq EXCEPT !.op = "create_post", !.token = token,
                    !.description = description, !.owner = owner]
GetPostsReq(skip, limit) ==
    [BaseReq EXCEPT !.op = "get_posts", !.skip = skip, !.limit = limit]
NoResp == [status |-> 0, detail |-> "", www |-> FALSE, body |-> NoBody]
NoLocal == [users |-> <<>>, user_dict |-> NoUser, req |-> BaseReq]

---------------------------------------------------------------------------
(* POST /register *)

(* any(u["username"] == user.username or u["email"] == user.email ...) *)
register_exists_and(users, username, email) ==
    \E i \in 1..Len(users) :
        users[i].username = username /\ users[i].email = email

register_exists(users, username, email) ==
    \E i \in 1..Len(users) :
        users[i].username = username \/ users[i].email = email

(* uuid4(): an id no record and no request in flight holds *)
FreshUserIds(users) ==
    UserIds \ ({users[i].id : i \in 1..Len(users)}
               \cup {local[c].user_dict.id : c \in Clients})

(* register up to the duplicate check: the users it read, or what it raised *)
register_check(file, username, email) ==
    LET r == read_json(file) IN
    IF r.exc # "none" THEN r
    ELSE IF register_exists(r.value, username, email)
    THEN HTTPException(400, "Username or email already registered", FALSE)
    ELSE r

new_user_dict(id, username, email, password, salt) ==
    [id |-> id, username |-> username, email |-> email,
     password |-> pwd_hash(password, salt)]

(* The whole handler, in one step (one worker: the handler never awaits). *)
Register(username, email, password) ==
    /\ LET r == register_check(usersFile, username, email) IN
       IF r.exc # "none"
       THEN /\ resp' = Respond(r, NoBody)
            /\ UNCHANGED usersFile
       ELSE \E id \in FreshUserIds(r.value), salt \in Salts :
               LET user_dict == new_user_dict(id, username, email, password, salt)
                   w == write_json(usersFile, Append(r.value, user_dict))
               IN  /\ usersFile' = w.file
                   /\ resp' = Respond(w, UserModel(user_dict))
    /\ req' = RegisterReq(username, email, password)
    /\ caller' = NoCaller
    /\ UNCHANGED <<postsFile, now, tok, pc, local>>

(* The handler in two steps, for several workers on the same files: the
   read with the duplicate check, then the append with the write. *)
RegisterRead(c, username, email, password) ==
    /\ pc[c] = "idle"
    /\ LET r == register_check(usersFile, username, email) IN
       IF r.exc # "none"
       THEN /\ resp' = Respond(r, NoBody)
            /\ req' = RegisterReq(username, email, password)
            /\ UNCHANGED <<pc, local>>
       ELSE \E id \in FreshUserIds(r.value), salt \in Salts :
               /\ pc' = [pc EXCEPT ![c] = "write"]
               /\ local' = [local EXCEPT ![c] =
                     [users |-> r.value,
                      user_dict |-> new_user_dict(id, username, email, password, salt),
                      req |-> RegisterReq(username, email, password)]]
               /\ UNCHANGED <<req, resp>>
    /\ UNCHANGED <<usersFile, postsFile, now, tok, caller>>

RegisterWrite(c) ==
    /\ pc[c] = "write"
    /\ LET w == write_json(usersFile, Append(local[c].users, local[c].user_dict)) IN
           /\ usersFile' = w.file
           /\ resp' = Respond(w, UserModel(local[c].user_dict))
    /\ req' = local[c].req
    /\ pc' = [pc EXCEPT ![c] = "idle"]
    /\ local' = [local EXCEPT ![c] = NoLocal]
    /\ UNCHANGED <<postsFile, now, tok, caller>>

---------------------------------------------------------------------------
(* POST /token *)

(* a login that tells an unknown username from a wrong password *)
login_leaky(file, username, password, t) ==
    LET r == read_json(file) IN
    IF r.exc # "none" THEN r
    ELSE LET users == r.value
             i == FirstOf({k \in 1..Len(users) : users[k].username = username})
         IN  IF i = 0 THEN HTTPException(404, "User not found", FALSE)
             ELSE IF ~pwd_verify(password, users[i].password)
             THEN HTTPException(401, "Incorrect username or password", TRUE)
             ELSE Ok(create_access_token([sub |-> {users[i].id}], t))

login(file, username, password, t) ==
    LET r == read_json(file) IN
    IF r.exc # "none" THEN r
    ELSE LET users == r.value
             i == FirstOf({k \in 1..Len(users) : users[k].username = username})
         IN  IF i = 0 \/ ~pwd_verify(password, users[i].password)
             THEN HTTPException(401, "Incorrect username or password", TRUE)
             ELSE Ok(create_access_token([sub |-> {users[i].id}], t))

Login(c, username, password) ==
    /\ LET r == login(usersFile, username, password, now) IN
       IF r.exc # "none"
       THEN /\ resp' = Respond(r, NoBody)
            /\ UNCHANGED tok
       ELSE /\ resp' = Respond(r, [kind |-> "token", access_token |-> r.value,
                                   token_type |-> "bearer"])
            /\ tok' = [tok EXCEPT ![c] = r.value]
    /\ req' = LoginReq(username, password)
    /\ caller' = NoCaller
    /\ UNCHANGED <<usersFile, postsFile, now, pc, local>>

---------------------------------------------------------------------------
(* POST /posts *)

Title == "T"
EmbedUrl == "u"

(* uuid4(): an id no post holds *)
FreshPostIds(posts) ==
    {ToString(k) : k \in 1..(Len(posts) + 1)} \ {posts[i].id : i \in 1..Len(posts)}

CreatePost(token, description, owner) ==
    /\ LET u == current_user_dependency(token, usersFile, now)
           post == PostCreate(Title, EmbedUrl, description, owner)
       IN
       IF u.exc # "none"
       THEN /\ resp' = Respond(u, NoBody)
            /\ caller' = NoCaller
            /\ UNCHANGED postsFile
       ELSE /\ caller' = u.value
            /\ LET r == read_json(postsFile) IN
               IF r.exc # "none"
               THEN /\ resp' = Respond(r, NoBody)
                    /\ UNCHANGED postsFile
               ELSE \E id \in FreshPostIds(r.value) :
                       LET post_dict ==
                               [id |-> id, title |-> post.title,
                                embed_url |-> post.embed_url,
                                description |-> post.description,
                                user_id |-> u.value.id,
                                created_at |-> str_datetime(now)]
                           w == write_json(postsFile, Append(r.value, post_dict))
                       IN  /\ postsFile' = w.file
                           /\ resp' = Respond(w, PostModel(post_dict))
    /\ req' = CreatePostReq(token, description, owner)
    /\ UNCHANGED <<usersFile, now, tok, pc, local>>

---------------------------------------------------------------------------
(* GET /posts *)

(* s[start:stop] of Python, for any integers start and stop *)
PySlice(s, start, stop) ==
    LET n == Len(s)
        Clamp(i) == IF i < 0 THEN (IF n + i < 0 THEN 0 ELSE n + i)
                    ELSE (IF i > n THEN n ELSE i)
        lo == Clamp(start)
        hi == Clamp(stop)
    IN  IF lo < hi THEN SubSeq(s, lo + 1, hi) ELSE <<>>

(* posts[skip:limit] *)
paginate_stop_is_limit(posts, skip, limit) == PySlice(posts, skip, limit)

(* posts[skip:skip + limit] *)
paginate(posts, skip, limit) == PySlice(posts, skip, skip + limit)

get_posts(file, skip, limit) ==
    LET r == read_json(file) IN
    IF r.exc # "none" THEN r
    ELSE LET paginated_posts == paginate(r.value, skip, limit) IN
         Ok([i \in 1..Len(paginated_posts) |-> PostModel(paginated_posts[i])])

GetPosts(skip, limit) ==
    /\ LET r == get_posts(postsFile, skip, limit) IN
       resp' = IF r.exc # "none" THEN Respond(r, NoBody)
               ELSE Respond(r, [kind |-> "posts", items |-> r.value])
    /\ req' = GetPostsReq(skip, limit)
    /\ caller' = NoCaller
    /\ UNCHANGED <<usersFile, postsFile, now, tok, pc, local>>

---------------------------------------------------------------------------
(* The clock *)

Tick ==
    /\ now + ClockStep <= MaxTime
    /\ now' = now + ClockStep
    /\ UNCHANGED <<usersFile, postsFile, tok, req, resp, caller, pc, local>>

---------------------------------------------------------------------------
(* Initial states.  init_json_files writes [] to a store file that does not
   exist and leaves an existing one as it is: the service starts on empty
   stores or on well-formed stores of an earlier run. *)

Alice == new_user_dict("u1", "alice", "a@x.com", "pw123", "s1")
Bob == new_user_dict("u2", "bob", "b@x.com", "pw123", "s2")
InitUserStores == {<<>>, <<Alice>>, <<Alice, Bob>>}

StoredPost(k) ==
    [id |-> ToString(k), title |-> Title, embed_url |-> EmbedUrl,
     description |-> IF k % 2 = 0 THEN "d" ELSE NoDescription,
     user_id |-> "u1", created_at |-> str_datetime(0)]
StoredPosts(n) == [k \in 1..n |-> StoredPost(k)]

InitCommon ==
    /\ now = 0
    /\ tok = [c \in Clients |-> NoToken]
    /\ req = BaseReq
    /\ resp = NoResp
    /\ caller = NoCaller
    /\ pc = [c \in Clients |-> "idle"]
    /\ local = [c \in Clients |-> NoLocal]

Init ==
    /\ usersFile \in {JsonFile(s) : s \in InitUserStores}
    /\ postsFile \in {JsonFile(StoredPosts(n)) : n \in 0..MaxInitPosts}
    /\ InitCommon

(* The tokens a client can put in the Authorization header: none, a string
   that is no JWT, the token a login gave, or any JWT. *)
SubInputs == {{}, {"u1"}, {"u9"}}
ExpInputs == {{}, {ACCESS_TOKEN_EXPIRE_MINUTES}}
TokenInputs ==
    {NoToken, Garbage}
        \cup {Jwt(s, e, k) : s \in SubInputs, e \in ExpInputs, k \in {SECRET_KEY, OtherKey}}
        \cup {tok[c] : c \in Clients}

Next ==
    \/ Tick
    \/ \E u \in Usernames, e \in Emails, p \in Passwords : Register(u, e, p)
    \/ \E c \in Clients, u \in Usernames, p \in Passwords : Login(c, u, p)
    \/ \E t \in TokenInputs, b \in PostBodies : CreatePost(t, b[1], b[2])
    \/ \E skip \in {DefaultSkip, 1}, limit \in {DefaultLimit, 1} :
          GetPosts(skip, limit)

(* One worker: every handler runs to its end before the next request. *)
Spec == Init /\ [][Next]_vars

(* Several workers on the same files: register requests interleave. *)
NextRace ==
    \/ \E c \in Clients, u \in Usernames, e \in Emails, p \in Passwords :
          RegisterRead(c, u, e, p)
    \/ \E c \in Clients : RegisterWrite(c)

SpecRace == Init /\ [][NextRace]_vars

(* GET /posts over stores of up to MaxPosts posts. *)
InitList ==
    /\ usersFile = JsonFile(<<Alice>>)
    /\ postsFile \in {JsonFile(StoredPosts(n)) : n \in 0..MaxPosts}
    /\ InitCommon

NextList ==
    \/ \E skip \in (0 - 1)..MaxSkip, limit \in (0 - 1)..MaxLimit :
          GetPosts(skip, limit)
    \/ \E t \in TokenInputs : CreatePost(t, NoDescription, NoOwner)

SpecList == InitList /\ [][NextList]_vars

---------------------------------------------------------------------------
(* Properties *)

(* The step completes a request of the kind, the one req' records. *)
RegisterStep == req'.op = "register" /\ Register(req'.username, req'.email, req'.password)
LoginStep(c) == req'.op = "login" /\ Login(c, req'.username, req'.password)
CreatePostStep ==
    req'.op = "create_post" /\ CreatePost(req'.token, req'.description, req'.owner)
GetPostsStep == req'.op = "get_posts" /\ GetPosts(req'.skip, req'.limit)

(* A bearer token that is present, signed with the server secret, not
   expired at t, and whose subject is the id of a user record of the file. *)
TokenAccepted(token, file, t) ==
    /\ token.kind = "jwt"
    /\ token.key = SECRET_KEY
    /\ \A e \in token.exp : t < e
    /\ file.valid
    /\ \E i \in 1..Len(file.data) : file.data[i].id \in token.sub

UniqueUsers(users) ==
    \A i, j \in 1..Len(users) :
        i # j => /\ users[i].username # users[j].username
                 /\ users[i].email # users[j].email

(* file2 holds the list of file1 with exactly one record appended *)
Appended(file1, file2) ==
    /\ file2.valid
    /\ Len(file2.data) = Len(file1.data) + 1
    /\ SubSeq(file2.data, 1, Len(file1.data)) = file1.data

BadCredentials ==
    [status |-> 401, detail |-> "Incorrect username or password", www |-> TRUE,
     body |-> NoBody]

(* C1: the post store changes only in a POST /posts whose bearer token is
   present, validly signed, unexpired and names an existing user; a POST
   /posts whose token fails any of these resolves no caller, is answered
   with an error and leaves the post store as it was. *)
C1_AuthGateSafety ==
    [][/\ postsFile' # postsFile =>
            /\ req'.op = "create_post"
            /\ TokenAccepted(req'.token, usersFile, now)
       /\ (CreatePostStep /\ ~TokenAccepted(req'.token, usersFile, now)) =>
                /\ postsFile' = postsFile
                /\ caller' = NoCaller
                /\ resp'.status # 200]_vars

(* A POST /posts with an accepted token has passed the gate and reached the
   write of the post store. *)
C1_Witness ==
    /\ req.op = "create_post"
    /\ TokenAccepted(req.token, usersFile, now)
    /\ caller # NoCaller
    /\ ~postsFile.valid

(* C2: a POST /posts of an authenticated user U is answered 200 with a post
   whose user_id is U.id, whatever owner field the body carried, and that
   post is in the post store. *)
C2_OwnerIsCaller ==
    (req.op = "create_post" /\ caller # NoCaller) =>
        /\ resp.status = 200
        /\ resp.body.kind = "post"
        /\ resp.body.user_id = caller.id
        /\ postsFile.valid
        /\ \E i \in 1..Len(postsFile.data) :
              /\ postsFile.data[i].id = resp.body.id
              /\ postsFile.data[i].user_id = caller.id

(* C3: no two records of the user store share a username and no two share
   an email, also when the register requests of several clients interleave. *)
C3_UserUniqueness == UniqueUsers(usersFile.data)

(* Two register requests for the same username are both past the duplicate
   check, neither has written yet. *)
C3_Witness ==
    /\ pc["c1"] = "write"
    /\ pc["c2"] = "write"
    /\ local["c1"].user_dict.username = local["c2"].user_dict.username
    /\ usersFile.valid

(* C4: a register request whose username or email a record of the user
   store already holds is answered 400 with the duplicate-identity detail,
   and both stores are the same before and after it. *)
C4_DuplicateRejected ==
    [][(/\ RegisterStep
        /\ usersFile.valid
        /\ \E i \in 1..Len(usersFile.data) :
              \/ usersFile.data[i].username = req'.username
              \/ usersFile.data[i].email = req'.email)
          => /\ resp'.status = 400
             /\ resp'.detail = "Username or email already registered"
             /\ usersFile' = usersFile
             /\ postsFile' = postsFile]_vars

(* A register request with a stored username and another email was
   answered 400. *)
C4_Witness ==
    /\ req.op = "register"
    /\ resp.status = 400
    /\ usersFile.valid
    /\ \E i \in 1..Len(usersFile.data) :
          /\ usersFile.data[i].username = req.username
          /\ usersFile.data[i].email # req.email

(* C5: from empty stores, register of a fresh identity is answered 200 with
   the new user and stores it; a login with a stored user's credentials is
   answered 200 with a token for that user; POST /posts with an accepted
   token is answered 200 with a post owned by the token's subject, which is
   then in the store; GET /posts with the defaults is answered 200. *)
C5_EndToEnd ==
    [][/\ (/\ usersFile = JsonFile(<<>>)
           /\ postsFile = JsonFile(<<>>)
           /\ RegisterStep)
            => /\ resp'.status = 200
               /\ resp'.body.kind = "user"
               /\ resp'.body.username = req'.username
               /\ Appended(usersFile, usersFile')
               /\ usersFile'.data[1].id = resp'.body.id
       /\ \A c \in Clients :
            (/\ LoginStep(c)
             /\ \E i \in 1..Len(usersFile.data) :
                   /\ usersFile.data[i].username = req'.username
                   /\ pwd_verify(req'.password, usersFile.data[i].password))
            => /\ resp'.status = 200
               /\ resp'.body.kind = "token"
       /\ (/\ CreatePostStep
           /\ TokenAccepted(req'.token, usersFile, now)
           /\ postsFile.valid)
            => /\ resp'.status = 200
               /\ resp'.body.kind = "post"
               /\ resp'.body.user_id \in req'.token.sub
               /\ Appended(postsFile, postsFile')
       /\ (/\ GetPostsStep
           /\ req'.skip = DefaultSkip
           /\ req'.limit = DefaultLimit
           /\ postsFile.valid)
            => resp'.status = 200]_vars

(* C6: a POST /posts whose token is missing, malformed, wrongly signed,
   expired, without a subject, or of a subject that is no user of the
   (readable) user store is answered 401. *)
C6_UniformUnauthorized ==
    [][(/\ CreatePostStep
        /\ usersFile.valid
        /\ ~TokenAccepted(req'.token, usersFile, now))
          => resp'.status = 401]_vars

(* C7: a login whose username no record holds and a login with a stored
   username and a wrong password get one and the same response, 401 with the
   same detail and header, issue no token and change no store. *)
C7_LoginNoEnumeration ==
    [][\A c \in Clients :
          (/\ LoginStep(c)
           /\ usersFile.valid
           /\ ~\E i \in 1..Len(usersFile.data) :
                  /\ usersFile.data[i].username = req'.username
                  /\ pwd_verify(req'.password, usersFile.data[i].password))
          => /\ resp' = BadCredentials
             /\ tok' = tok
             /\ usersFile' = usersFile
             /\ postsFile' = postsFile]_vars

(* A login with a stored username and a wrong password was rejected. *)
C7_Witness ==
    /\ req.op = "login"
    /\ resp = BadCredentials
    /\ usersFile.valid
    /\ \E i \in 1..Len(usersFile.data) :
          /\ usersFile.data[i].username = req.username
          /\ ~pwd_verify(req.password, usersFile.data[i].password)

(* C8: a successful login at time t gives a token with the user's id as
   subject and expiry t + 30 minutes; a token a login gave resolves to its
   subject when presented before its expiry, whatever requests the service
   has handled since, and resolves to nobody at or after its expiry. *)
C8_TokenLifecycle ==
    [][/\ \A c \in Clients :
            (LoginStep(c) /\ resp'.status = 200) =>
                /\ tok'[c].exp = {now + ACCESS_TOKEN_EXPIRE_MINUTES}
                /\ tok'[c] = resp'.body.access_token
                /\ \E i \in 1..Len(usersFile.data) :
                      /\ usersFile.data[i].username = req'.username
                      /\ tok'[c].sub = {usersFile.data[i].id}
       /\ \A c \in Clients :
            (tok[c].kind = "jwt" /\ CreatePostStep /\ req'.token = tok[c]) =>
                IF \A e \in tok[c].exp : now < e
                THEN caller'.id \in tok[c].sub
                ELSE caller' = NoCaller /\ postsFile' = postsFile]_vars

(* C9: GET /posts with non-negative skip and limit on a readable store is
   answered 200 with the posts at positions skip .. min(skip+limit, n)-1 in
   stored order (none when skip >= n), and changes no store. *)
C9_ListingWindow ==
    [][(GetPostsStep /\ req'.skip >= 0 /\ req'.limit >= 0 /\ postsFile.valid) =>
             LET n == Len(postsFile.data)
                 skip == req'.skip
                 limit == req'.limit
                 hi == IF skip + limit < n THEN skip + limit ELSE n
                 k == IF hi > skip THEN hi - skip ELSE 0
             IN  /\ resp'.status = 200
                 /\ resp'.body.kind = "posts"
                 /\ Len(resp'.body.items) = k
                 /\ \A i \in 1..k :
                       resp'.body.items[i] = PostModel(postsFile.data[skip + i])
                 /\ postsFile' = postsFile
                 /\ usersFile' = usersFile]_vars

(* With 15 posts stored, skip=10 and limit=10 gave the remaining 5. *)
C9_Witness ==
    /\ req.op = "get_posts"
    /\ req.skip = DefaultLimit
    /\ req.limit = DefaultLimit
    /\ postsFile.valid
    /\ Len(postsFile.data) = DefaultLimit + 5
    /\ resp.status = 200
    /\ Len(resp.body.items) = 5

(* C10: each store file always holds a readable list, and a step that
   changes a store file leaves the previous list with exactly one record
   appended. *)
C10_StoreRoundTrip ==
    [][/\ usersFile' # usersFile => Appended(usersFile, usersFile')
       /\ postsFile' # postsFile => Appended(postsFile, postsFile')]_vars

====
